---- MODULE Spec2Model ----
(***************************************************************************)
(* The patients API route (src/app/api/patients/route.ts): a read-only     *)
(* query pipeline  load -> filter -> sort -> paginate  behind a GET        *)
(* handler, plus the POST/PUT/DELETE handlers that refuse every request.   *)
(*                                                                         *)
(* Strings are sequences of one-character strings, so that toLowerCase,    *)
(* trim, split, includes and parseInt are computed character by character. *)
(* A JavaScript number that may be NaN is a record [k |-> "num", v |-> n]  *)
(* or [k |-> "NaN", v |-> 0]; JSON.stringify turns NaN into null,          *)
(* [k |-> "null", v |-> 0].                                                *)
(***************************************************************************)
EXTENDS Integers, Sequences, FiniteSets, TLC

VARIABLES
    patients,   \* the array of Patient that data/patients.json holds
    fileReadable, \* whether readFileSync and JSON.parse of that file succeed
    req,        \* the request being answered: [method, params]
    resp,       \* the response to it: [status, body]
    calls,      \* the pipeline functions the handler invoked for it, in order
    arrays,     \* the arrays the handler holds, and which one each stage was given
    home,       \* the state of HomePage in the browser
    localSearch,\* the state of SearchFilterBar: the text of the search box
    timers,     \* the pending timeouts, in the order they were set
    inFlight,   \* the calls of loadPatients that await their response, in the order of the calls
    latest,     \* the last call of loadPatients, and its answer once it has come
    user        \* what the user did last, and how often they acted

server == <<patients, fileReadable, req, resp, calls, arrays>>

browser == <<home, localSearch, timers, inFlight, latest, user>>

vars == <<patients, fileReadable, req, resp, calls, arrays,
          home, localSearch, timers, inFlight, latest, user>>

\* how often the user acts, or the data file changes, in a run of the page
MaxEvents == 2

(***************************************************************************)
(* Bounds of the model.                                                    *)
(***************************************************************************)
\* the longest data file drawn at Init
MaxPatients == 3

(***************************************************************************)
(* Characters and strings.                                                 *)
(***************************************************************************)
\* URLSearchParams.get returns null for a key that is not in the URL
NULL == <<"null">>

UpperChars ==
    <<"A","B","C","D","E","F","G","H","I","J","K","L","M",
      "N","O","P","Q","R","S","T","U","V","W","X","Y","Z">>

LowerChars ==
    <<"a","b","c","d","e","f","g","h","i","j","k","l","m",
      "n","o","p","q","r","s","t","u","v","w","x","y","z">>

Digits == <<"0","1","2","3","4","5","6","7","8","9">>

IsWhite(c) == c = " "

IsDigit(c) == \E i \in 1..10 : Digits[i] = c

DigitVal(c) == (CHOOSE i \in 1..10 : Digits[i] = c) - 1

\* String.prototype.toLowerCase on one ASCII character
LowerChar(c) ==
    IF \E i \in 1..26 : UpperChars[i] = c
    THEN LowerChars[CHOOSE i \in 1..26 : UpperChars[i] = c]
    ELSE c

\* String.prototype.toLowerCase
toLowerCase(s) == [i \in 1..Len(s) |-> LowerChar(s[i])]

\* String.prototype.trim (the only whitespace of the model is the space)
RECURSIVE trimStart(_)
trimStart(s) ==
    IF s # <<>> /\ IsWhite(Head(s)) THEN trimStart(Tail(s)) ELSE s

RECURSIVE trimEnd(_)
trimEnd(s) ==
    IF s # <<>> /\ IsWhite(s[Len(s)]) THEN trimEnd(SubSeq(s, 1, Len(s) - 1)) ELSE s

trim(s) == trimEnd(trimStart(s))

\* String.prototype.includes: t occurs in s as a contiguous substring
includes(s, t) ==
    \E i \in 1..(Len(s) - Len(t) + 1) : SubSeq(s, i, i + Len(t) - 1) = t

\* String.prototype.split(','): the pieces between the commas, empty pieces kept
RECURSIVE splitFrom(_, _)
splitFrom(s, piece) ==
    IF s = <<>> THEN <<piece>>
    ELSE IF Head(s) = "," THEN <<piece>> \o splitFrom(Tail(s), <<>>)
    ELSE splitFrom(Tail(s), Append(piece, Head(s)))

split(s) == splitFrom(s, <<>>)

\* JavaScript truthiness of a string-or-null: null and '' are falsy
Truthy(s) == s # NULL /\ s # <<>>

\* a || b on strings
OrElse(s, d) == IF Truthy(s) THEN s ELSE d

(***************************************************************************)
(* Numbers.                                                                *)
(***************************************************************************)
Num(n) == [k |-> "num", v |-> n]

NaN == [k |-> "NaN", v |-> 0]

JsonNull == [k |-> "null", v |-> 0]

isNaN(x) == x.k = "NaN"

\* Math.max and Math.min of two numbers: NaN if either is NaN
MathMax(a, b) ==
    IF isNaN(a) \/ isNaN(b) THEN NaN ELSE IF a.v >= b.v THEN a ELSE b

MathMin(a, b) ==
    IF isNaN(a) \/ isNaN(b) THEN NaN ELSE IF a.v <= b.v THEN a ELSE b

\* the value of a string of decimal digits
RECURSIVE DigitsValue(_)
DigitsValue(ds) ==
    IF ds = <<>> THEN 0
    ELSE 10 * DigitsValue(SubSeq(ds, 1, Len(ds) - 1)) + DigitVal(ds[Len(ds)])

\* the longest prefix of s made of decimal digits
RECURSIVE DigitPrefix(_)
DigitPrefix(s) ==
    IF s # <<>> /\ IsDigit(Head(s)) THEN <<Head(s)>> \o DigitPrefix(Tail(s)) ELSE <<>>

\* parseInt(s) with no radix: leading whitespace is skipped, then an optional
\* sign, then the longest run of decimal digits; whatever follows is ignored;
\* NaN when there is no digit at that place. (The hexadecimal prefix 0x is
\* left out: no raw value of the model starts with it.)
parseInt(s) ==
    LET t == trimStart(s)
        neg == t # <<>> /\ Head(t) = "-"
        u == IF t # <<>> /\ (Head(t) = "-" \/ Head(t) = "+") THEN Tail(t) ELSE t
        ds == DigitPrefix(u)
    IN  IF ds = <<>> THEN NaN
        ELSE Num(IF neg THEN 0 - DigitsValue(ds) ELSE DigitsValue(ds))

\* JSON.stringify writes NaN as null
toJSON(x) == IF isNaN(x) THEN JsonNull ELSE x

(***************************************************************************)
(* The pipeline stages.                                                    *)
(***************************************************************************)
\* Array.prototype.filter, the elements that pass in their order, is SelectSeq.

\* Array.prototype.includes on an array of strings
arrayIncludes(xs, x) == \E i \in 1..Len(xs) : xs[i] = x

\* searchStep with the term compared as typed, not lower-cased
searchStep_CaseSensitive(ps, params) ==
    LET search == params.search
        Pass(p) == \/ includes(toLowerCase(p.patient_name), search)
                   \/ includes(toLowerCase(p.medical_issue), search)
    IN  IF Truthy(search) THEN SelectSeq(ps, Pass) ELSE ps

\* searchStep looking at the records from the second one on
searchStep_FromSecond(ps, params) ==
    LET search == IF params.search = NULL THEN NULL ELSE toLowerCase(params.search)
        Pass(p) == \/ includes(toLowerCase(p.patient_name), search)
                   \/ includes(toLowerCase(p.medical_issue), search)
    IN  IF Truthy(search) /\ ps # <<>> THEN SelectSeq(Tail(ps), Pass) ELSE ps

\* route.ts filterPatients, lines 39-45: the search step
searchStep(ps, params) ==
    LET search == IF params.search = NULL THEN NULL ELSE toLowerCase(params.search)
        Pass(p) == \/ includes(toLowerCase(p.patient_name), search)
                   \/ includes(toLowerCase(p.medical_issue), search)
    IN  IF Truthy(search) THEN SelectSeq(ps, Pass) ELSE ps

\* lines 49-54: the ageMin step
ageMinStep(ps, params) ==
    LET ageMin == params.ageMin
        minAge == parseInt(ageMin)
        Pass(p) == p.age >= minAge.v
    IN  IF Truthy(ageMin) /\ ~isNaN(minAge) THEN SelectSeq(ps, Pass) ELSE ps

\* lines 55-60: the ageMax step
ageMaxStep(ps, params) ==
    LET ageMax == params.ageMax
        maxAge == parseInt(ageMax)
        Pass(p) == p.age <= maxAge.v
    IN  IF Truthy(ageMax) /\ ~isNaN(maxAge) THEN SelectSeq(ps, Pass) ELSE ps

\* medicalIssueStep with the items of the list not trimmed
medicalIssueStep_NoTrim(ps, params) ==
    LET medicalIssue == params.medical_issue
        parts == split(medicalIssue)
        issues == [i \in 1..Len(parts) |-> toLowerCase(parts[i])]
        Pass(p) == arrayIncludes(issues, toLowerCase(p.medical_issue))
    IN  IF Truthy(medicalIssue) THEN SelectSeq(ps, Pass) ELSE ps

\* lines 62-68: the medical_issue step
medicalIssueStep(ps, params) ==
    LET medicalIssue == params.medical_issue
        parts == split(medicalIssue)
        issues == [i \in 1..Len(parts) |-> toLowerCase(trim(parts[i]))]
        Pass(p) == arrayIncludes(issues, toLowerCase(p.medical_issue))
    IN  IF Truthy(medicalIssue) THEN SelectSeq(ps, Pass) ELSE ps

\* filterPatients with the ageMin step left out
filterPatients_NoAgeMin(ps, params) ==
    medicalIssueStep(ageMaxStep(searchStep(ps, params), params), params)

filterPatients(ps, params) ==
    medicalIssueStep(ageMaxStep(ageMinStep(searchStep(ps, params), params), params), params)

\* the place of a letter in the alphabet, whatever its case
LetterRank(c) == CHOOSE i \in 1..26 : LowerChars[i] = LowerChar(c)

\* 0 for a lower-case letter, 1 for an upper-case one
CaseRank(c) == IF LowerChar(c) = c THEN 0 ELSE 1

\* the first difference of two sequences of integers decides; a proper prefix
\* comes first
RECURSIVE compareKeys(_, _)
compareKeys(a, b) ==
    IF a = <<>> /\ b = <<>> THEN 0
    ELSE IF a = <<>> THEN -1
    ELSE IF b = <<>> THEN 1
    ELSE IF Head(a) < Head(b) THEN -1
    ELSE IF Head(a) > Head(b) THEN 1
    ELSE compareKeys(Tail(a), Tail(b))

\* String.prototype.localeCompare with the default (root) collation, on strings
\* of ASCII letters: the letters decide first, whatever their case; between
\* strings with the same letters the first difference of case decides, the
\* lower-case letter first. The result is -1, 0 or 1.
localeCompare(a, b) ==
    LET primary == compareKeys([i \in 1..Len(a) |-> LetterRank(a[i])],
                               [i \in 1..Len(b) |-> LetterRank(b[i])])
    IN  IF primary # 0 THEN primary
        ELSE compareKeys([i \in 1..Len(a) |-> CaseRank(a[i])],
                         [i \in 1..Len(b) |-> CaseRank(b[i])])

S_age == <<"a","g","e">>

S_patient_name == <<"p","a","t","i","e","n","t","_","n","a","m","e">>

S_asc == <<"a","s","c">>

S_desc == <<"d","e","s","c">>

\* route.ts lines 78-93: the comparator handed to Array.prototype.sort
compareFn(a, b, sortBy, sortOrder) ==
    IF sortBy # S_age /\ sortBy # S_patient_name THEN 0
    ELSE LET compareValue == IF sortBy = S_age THEN a.age - b.age
                             ELSE localeCompare(a.patient_name, b.patient_name)
         IN  IF sortOrder = S_desc THEN 0 - compareValue ELSE compareValue

\* x put into the sorted array xs: before the elements that compare greater
\* than x, after every other one
RECURSIVE insertSorted(_, _, _, _)
insertSorted(xs, x, sortBy, sortOrder) ==
    IF xs # <<>> /\ compareFn(xs[Len(xs)], x, sortBy, sortOrder) > 0
    THEN Append(insertSorted(SubSeq(xs, 1, Len(xs) - 1), x, sortBy, sortOrder), xs[Len(xs)])
    ELSE Append(xs, x)

\* Array.prototype.sort with compareFn: a stable sort (ECMAScript 2019), here
\* by insertion
RECURSIVE arraySort(_, _, _)
arraySort(xs, sortBy, sortOrder) ==
    IF xs = <<>> THEN <<>>
    ELSE insertSorted(arraySort(SubSeq(xs, 1, Len(xs) - 1), sortBy, sortOrder),
                      xs[Len(xs)], sortBy, sortOrder)

RECURSIVE Reverse(_)
Reverse(xs) == IF xs = <<>> THEN <<>> ELSE Append(Reverse(Tail(xs)), Head(xs))

\* sortPatients sorting ascending and reversing the array for desc
sortPatients_ReverseForDesc(ps, sortBy, sortOrder) ==
    IF ~Truthy(sortBy) THEN ps
    ELSE IF sortOrder = S_desc THEN Reverse(arraySort(ps, sortBy, S_asc))
    ELSE arraySort(ps, sortBy, sortOrder)

\* sortPatients reversing its input for desc when there is no sortBy
sortPatients_DescReversesUnsorted(ps, sortBy, sortOrder) ==
    IF ~Truthy(sortBy) THEN (IF sortOrder = S_desc THEN Reverse(ps) ELSE ps)
    ELSE arraySort(ps, sortBy, sortOrder)

sortPatients(ps, sortBy, sortOrder) ==
    IF ~Truthy(sortBy) THEN ps ELSE arraySort(ps, sortBy, sortOrder)

Infinity == [k |-> "Infinity", v |-> 0]

\* CeilDiv rounding down: Math.floor(total / limit)
CeilDiv_Floor(total, limit) ==
    IF isNaN(limit) THEN NaN
    ELSE IF limit.v > 0 THEN Num(total \div limit.v)
    ELSE IF limit.v < 0 THEN Num(0 - ((total + (0 - limit.v) - 1) \div (0 - limit.v)))
    ELSE IF total = 0 THEN NaN ELSE Infinity

\* Math.ceil(total / limit), total an array length
CeilDiv(total, limit) ==
    IF isNaN(limit) THEN NaN
    ELSE IF limit.v > 0 THEN Num((total + limit.v - 1) \div limit.v)
    ELSE IF limit.v < 0 THEN Num(0 - (total \div (0 - limit.v)))
    ELSE IF total = 0 THEN NaN ELSE Infinity

\* Offset counting pages from 0: page * limit
Offset_FromZero(page, limit) ==
    IF isNaN(page) \/ isNaN(limit) THEN NaN ELSE Num(page.v * limit.v)

\* (page - 1) * limit
Offset(page, limit) ==
    IF isNaN(page) \/ isNaN(limit) THEN NaN ELSE Num((page.v - 1) * limit.v)

\* a + b
Plus(a, b) == IF isNaN(a) \/ isNaN(b) THEN NaN ELSE Num(a.v + b.v)

\* how Array.prototype.slice reads a bound: NaN is 0, a negative bound counts
\* from the end, and the result is clamped to 0..len
SliceIndex(x, len) ==
    IF isNaN(x) THEN 0
    ELSE IF x.v < 0 THEN (IF len + x.v > 0 THEN len + x.v ELSE 0)
    ELSE IF x.v < len THEN x.v ELSE len

\* Array.prototype.slice(start, end)
slice(xs, start, end) ==
    SubSeq(xs, SliceIndex(start, Len(xs)) + 1, SliceIndex(end, Len(xs)))

paginateResults(ps, page, limit) ==
    LET total == Len(ps)
        totalPages == CeilDiv(total, limit)
        offset == Offset(page, limit)
        paginatedPatients == slice(ps, offset, Plus(offset, limit))
    IN  [data |-> paginatedPatients,
         meta |-> [total |-> Num(total), page |-> page, limit |-> limit,
                   totalPages |-> totalPages]]

(***************************************************************************)
(* The stages on the arrays they are given. The arrays of a request are    *)
(* the cells of a heap, an array being named by the index of its cell: a   *)
(* spread, a filter and a slice make a new array, sort reorders the array  *)
(* it is called on. A stage returns the heap and the array it returns.     *)
(***************************************************************************)
\* [...xs], xs.filter(...) and xs.slice(...): a new array with these elements
newArray(h, elements) == [h |-> Append(h, elements), at |-> Len(h) + 1]

\* lines 36-71
filterPatientsOn(h, at, params) ==
    LET copied == newArray(h, h[at])
        searched == IF Truthy(params.search)
                    THEN newArray(copied.h, searchStep(copied.h[copied.at], params))
                    ELSE copied
        fromMin == IF Truthy(params.ageMin) /\ ~isNaN(parseInt(params.ageMin))
                   THEN newArray(searched.h, ageMinStep(searched.h[searched.at], params))
                   ELSE searched
        toMax == IF Truthy(params.ageMax) /\ ~isNaN(parseInt(params.ageMax))
                 THEN newArray(fromMin.h, ageMaxStep(fromMin.h[fromMin.at], params))
                 ELSE fromMin
    IN  IF Truthy(params.medical_issue)
        THEN newArray(toMax.h, medicalIssueStep(toMax.h[toMax.at], params))
        ELSE toMax

\* sortPatientsOn sorting the array it is given, without the copy of line 76
sortPatientsOn_InPlace(h, at, sortBy, sortOrder) ==
    IF ~Truthy(sortBy) THEN [h |-> h, at |-> at]
    ELSE [h |-> [h EXCEPT ![at] = arraySort(h[at], sortBy, sortOrder)], at |-> at]

\* lines 73-96: without sortBy the array itself is returned, else a copy of it
\* is sorted in place and returned
sortPatientsOn(h, at, sortBy, sortOrder) ==
    IF ~Truthy(sortBy) THEN [h |-> h, at |-> at]
    ELSE LET copied == newArray(h, h[at])
         IN  [h |-> [copied.h EXCEPT ![copied.at] = arraySort(copied.h[copied.at], sortBy, sortOrder)],
              at |-> copied.at]

\* lines 98-113: the slice is a new array
paginateResultsOn(h, at, page, limit) ==
    newArray(h, paginateResults(h[at], page, limit).data)

\* lines 140-146 on the heap: the array each stage was given, what it held at
\* the call, and the heap when the last stage has returned
pipelineOn(allPatients, searchParams, page, limit, sortBy, sortOrder) ==
    LET loaded == newArray(<<>>, allPatients)
        filtered == filterPatientsOn(loaded.h, loaded.at, searchParams)
        sorted == sortPatientsOn(filtered.h, filtered.at, sortBy, sortOrder)
        paged == paginateResultsOn(sorted.h, sorted.at, page, limit)
    IN  [cells |-> paged.h,
         loaded |-> loaded.at,
         given |-> [filterPatients |-> [at |-> loaded.at, held |-> loaded.h[loaded.at]],
                    sortPatients |-> [at |-> filtered.at, held |-> filtered.h[filtered.at]],
                    paginateResults |-> [at |-> sorted.at, held |-> sorted.h[sorted.at]]],
         returned |-> paged.at]

\* no pipeline has run
NoArrays == [cells |-> <<>>, loaded |-> 0, given |-> <<>>, returned |-> 0]

(***************************************************************************)
(* The GET handler.                                                        *)
(***************************************************************************)
MaxLimit == 100

S_1 == <<"1">>

S_20 == <<"2","0">>

validSortFields == <<S_age, S_patient_name>>

validSortOrders == <<S_asc, S_desc>>

\* line 119: Math.max(1, parseInt(searchParams.get('page') || '1'))
parsePage(raw) == MathMax(Num(1), parseInt(OrElse(raw, S_1)))

\* line 120: Math.min(100, Math.max(1, parseInt(searchParams.get('limit') || '20')))
parseLimit(raw) == MathMin(Num(MaxLimit), MathMax(Num(1), parseInt(OrElse(raw, S_20))))

\* NextResponse.json(body, {status}): the body as JSON
jsonResult(result) ==
    [kind |-> "result",
     data |-> result.data,
     meta |-> [total |-> toJSON(result.meta.total),
               page |-> toJSON(result.meta.page),
               limit |-> toJSON(result.meta.limit),
               totalPages |-> toJSON(result.meta.totalPages)]]

\* an error body without a message
jsonError(error) == [kind |-> "error", error |-> error, message |-> "undefined"]

jsonErrorMessage(error, message) == [kind |-> "error", error |-> error, message |-> message]

\* sortByInvalid with the check left out
sortByInvalid_Never(sortBy) == FALSE

\* line 125: sortBy && !validSortFields.includes(sortBy)
sortByInvalid(sortBy) == Truthy(sortBy) /\ ~arrayIncludes(validSortFields, sortBy)

\* line 133: sortOrder && !validSortOrders.includes(sortOrder)
sortOrderInvalid(sortOrder) == Truthy(sortOrder) /\ ~arrayIncludes(validSortOrders, sortOrder)

\* loadThrows for a loader that never throws
loadThrows_Never(readable) == FALSE

\* lines 25-34: loadPatientsData throws when readFileSync or JSON.parse throws
loadThrows(readable) == ~readable

\* lines 115-167: what GET answers, and the pipeline functions it calls on the
\* way; allPatients is what loadPatientsData returns when it does not throw
handleGET(allPatients, readable, searchParams) ==
    LET page == parsePage(searchParams.page)
        limit == parseLimit(searchParams.limit)
        sortBy == OrElse(searchParams.sortBy, <<>>)
        sortOrder == OrElse(searchParams.sortOrder, S_asc)
        filteredPatients == filterPatients(allPatients, searchParams)
        sortedPatients == sortPatients(filteredPatients, sortBy, sortOrder)
        result == paginateResults(sortedPatients, page, limit)
    IN  IF sortByInvalid(sortBy)
        THEN [resp |-> [status |-> 400,
                        body |-> jsonError("Invalid sortBy field. Must be one of: age, patient_name")],
              calls |-> <<>>]
        ELSE IF sortOrderInvalid(sortOrder)
        THEN [resp |-> [status |-> 400,
                        body |-> jsonError("Invalid sortOrder. Must be one of: asc, desc")],
              calls |-> <<>>]
        ELSE IF loadThrows(readable)
        THEN [resp |-> [status |-> 500,
                        body |-> jsonErrorMessage("Internal server error",
                                                  "Failed to load patients data")],
              calls |-> <<"loadPatientsData">>]
        ELSE [resp |-> [status |-> 200, body |-> jsonResult(result)],
              calls |-> <<"loadPatientsData", "filterPatients", "sortPatients",
                          "paginateResults">>]

\* the arrays of the handler when it returns
arraysOfGET(allPatients, readable, searchParams) ==
    IF handleGET(allPatients, readable, searchParams).resp.status # 200 THEN NoArrays
    ELSE pipelineOn(allPatients, searchParams,
                    parsePage(searchParams.page), parseLimit(searchParams.limit),
                    OrElse(searchParams.sortBy, <<>>), OrElse(searchParams.sortOrder, S_asc))

\* lines 169-188: POST, PUT and DELETE answer alike
methodNotAllowed == [status |-> 405, body |-> jsonError("Method not allowed")]

(***************************************************************************)
(* The inputs of the model: the records a data file is made of, and the    *)
(* raw values of the query parameters.                                     *)
(***************************************************************************)
\* raw parameter values
V_al == <<"a","l">>

V_RA == <<"R","A">>

V_25 == <<"2","5">>

V_30 == <<"3","0">>

V_abc == <<"a","b","c">>

V_26y == <<"2","6","y">>

V_flu == <<"f","l","u">>

V_FluRash == <<" ","F","l","u",",","R","A","S","H"," ">>

V_height == <<"h","e","i","g","h","t">>

V_up == <<"u","p">>

V_0 == <<"0">>

V_m1 == <<"-","1">>

V_2 == <<"2">>

V_3 == <<"3">>

V_101 == <<"1","0","1">>

PatientPool ==
    { [id |-> 1, patient_name |-> <<"A","l">>, age |-> 30, medical_issue |-> <<"f","l","u">>],
      [id |-> 2, patient_name |-> <<"B","O">>, age |-> 25, medical_issue |-> <<"R","a","s","h">>],
      [id |-> 3, patient_name |-> <<"a","l">>, age |-> 30, medical_issue |-> <<"r","a","s","h">>],
      [id |-> 4, patient_name |-> <<"C","y">>, age |-> 40, medical_issue |-> <<"f","l","u">>] }

\* the arrays of at most n distinct records of the pool
RECURSIVE ArraysUpTo(_)
ArraysUpTo(n) ==
    IF n = 0 THEN {<<>>}
    ELSE LET shorter == ArraysUpTo(n - 1)
         IN  shorter \cup
             { Append(a, r) : a \in {x \in shorter : Len(x) = n - 1},
                              r \in PatientPool }

DataFiles ==
    { a \in ArraysUpTo(MaxPatients) :
        \A i, j \in 1..Len(a) : i # j => a[i].id # a[j].id }

SearchRaw == {NULL, <<>>, V_al, V_RA}

AgeRaw == {NULL, V_25, V_30, V_abc, V_26y}

IssueRaw == {NULL, <<>>, V_flu, V_FluRash}

SortByRaw == {NULL, <<>>, S_age, S_patient_name, V_height}

SortOrderRaw == {NULL, S_asc, S_desc, V_up}

PageRaw == {NULL, <<>>, V_0, V_m1, V_2, V_3, V_abc}

LimitRaw == {NULL, <<>>, V_0, V_m1, S_1, V_2, V_101, V_abc}

Filters == [search : SearchRaw, ageMin : AgeRaw, ageMax : AgeRaw, medical_issue : IssueRaw]

\* every sort parameter, on the first or the second page of two records
SortViews ==
    [sortBy : SortByRaw, sortOrder : SortOrderRaw, page : {NULL, V_2}, limit : {NULL, V_2}]

\* every page and limit parameter, unsorted
PageViews == [sortBy : {NULL}, sortOrder : {NULL}, page : PageRaw, limit : LimitRaw]

NoFilter == [search |-> NULL, ageMin |-> NULL, ageMax |-> NULL, medical_issue |-> NULL]

NoView == [sortBy |-> NULL, sortOrder |-> NULL, page |-> NULL, limit |-> NULL]

\* the filters with at most one parameter in the URL
OneFilter == { f \in Filters : Cardinality({k \in DOMAIN f : f[k] # NULL}) <= 1 }

\* the sorted views whose parameters are allowed
PagedViews ==
    [sortBy : {NULL, S_age, S_patient_name}, sortOrder : {NULL, S_desc},
     page : {NULL, V_2}, limit : {NULL, V_2}]

\* URLSearchParams of a request, as the value get() returns for each key
URLSearchParams(f, v) ==
    [search |-> f.search, ageMin |-> f.ageMin, ageMax |-> f.ageMax,
     medical_issue |-> f.medical_issue, sortBy |-> v.sortBy,
     sortOrder |-> v.sortOrder, page |-> v.page, limit |-> v.limit]

\* the requests of the model: every combination of filters alone, every
\* combination of sort parameters and every combination of page and limit
\* alone, and each single filter with a sorted, paged view
Requests ==
    { URLSearchParams(f, NoView) : f \in Filters } \cup
    { URLSearchParams(NoFilter, v) : v \in SortViews \cup PageViews } \cup
    { URLSearchParams(f, v) : f \in OneFilter, v \in PagedViews }

\* the query strings sent with the other verbs
VerbParams ==
    { URLSearchParams(NoFilter, v) :
          v \in [sortBy : {NULL, S_age, V_height}, sortOrder : {NULL}, page : {NULL, V_2}, limit : {NULL}] }

\* the request bodies sent with the other verbs: none, or a record as JSON
Payloads == {"none", "json"}

NoRequest == [method |-> "none", params |-> URLSearchParams(NoFilter, NoView), payload |-> "none"]

NoResponse == [status |-> 0, body |-> [kind |-> "none"]]

(***************************************************************************)
(* The page in the browser: HomePage (page.tsx) with its SearchFilterBar,  *)
(* SortDropdown and Pagination, and fetchPatients (fetchers.ts).           *)
(***************************************************************************)
\* error of HomePage when it is null
NoError == <<"null">>

\* page.tsx lines 45-63: the state of HomePage at its first render
initialHome ==
    [patients |-> <<>>, loading |-> TRUE, error |-> NoError,
     currentPage |-> 1, totalPages |-> 1, totalCount |-> 0,
     filters |-> [search |-> <<>>, ageMin |-> <<>>, ageMax |-> <<>>, medicalIssue |-> <<>>],
     sort |-> [sortBy |-> <<>>, sortOrder |-> S_asc]]

\* Number.prototype.toString of a positive integer
RECURSIVE toString(_)
toString(n) ==
    IF n < 10 THEN <<Digits[n + 1]>> ELSE Append(toString(n \div 10), Digits[(n % 10) + 1])

\* page.tsx lines 83-96: the query loadPatients builds from the state of the
\* render it belongs to; a key that is not set reads as null on the server
queryOf(h) ==
    [page |-> toString(h.currentPage),
     limit |-> S_20,
     search |-> IF Truthy(h.filters.search) THEN h.filters.search ELSE NULL,
     ageMin |-> IF Truthy(h.filters.ageMin) THEN h.filters.ageMin ELSE NULL,
     ageMax |-> IF Truthy(h.filters.ageMax) THEN h.filters.ageMax ELSE NULL,
     medical_issue |-> IF Truthy(h.filters.medicalIssue) THEN h.filters.medicalIssue ELSE NULL,
     sortBy |-> IF Truthy(h.sort.sortBy) THEN h.sort.sortBy ELSE NULL,
     sortOrder |-> IF Truthy(h.sort.sortBy) THEN h.sort.sortOrder ELSE NULL]

\* a call of loadPatients that awaits its response: the query it sent and the
\* sort of its closure
loadOf(h) == [params |-> queryOf(h), sort |-> h.sort]

\* fetchers.ts lines 20-36: the message of the error thrown for a response
\* that is not OK, as the parts it is put together from
errorMessageOf(response) ==
    LET errorData == response.body
        named == IF errorData.kind = "error" THEN <<errorData.error>>
                 ELSE <<"HTTP status: statusText">>
    IN  IF errorData.kind = "error" /\ errorData.message # "undefined"
        THEN named \o <<" - ", errorData.message>>
        ELSE named

\* a fetch that was rejected with a TypeError of this message
rejected(message) == [status |-> 0, body |-> [kind |-> "TypeError", message |-> message]]

\* fetchers.ts lines 8-63: what fetchPatients returns, or the message of the
\* error it throws
fetchPatients(response) ==
    LET data == response.body
        requiredMetaFields == <<"total", "page", "limit", "totalPages">>
        invalid == { i \in 1..4 : \/ requiredMetaFields[i] \notin DOMAIN data.meta
                                  \/ data.meta[requiredMetaFields[i]].k # "num" }
    IN  IF response.body.kind = "TypeError"
        THEN [ok |-> FALSE,
              message |-> IF includes(response.body.message, <<"f","e","t","c","h">>)
                          THEN <<"Network error: Unable to connect to the server. Please check your connection.">>
                          ELSE response.body.message]
        ELSE IF ~(200 <= response.status /\ response.status <= 299)
        THEN [ok |-> FALSE, message |-> errorMessageOf(response)]
        ELSE IF "data" \notin DOMAIN data
        THEN [ok |-> FALSE,
              message |-> <<"Invalid response format: missing or invalid data array">>]
        ELSE IF "meta" \notin DOMAIN data
        THEN [ok |-> FALSE,
              message |-> <<"Invalid response format: missing or invalid meta object">>]
        ELSE IF invalid # {}
        THEN [ok |-> FALSE,
              message |-> <<"Invalid response format: missing or invalid meta.",
                            requiredMetaFields[CHOOSE i \in invalid : \A j \in invalid : i <= j]>>]
        ELSE [ok |-> TRUE, data |-> data.data, meta |-> data.meta]

\* localeCompare with {sensitivity: 'base'} on strings of ASCII letters: the
\* letters decide, whatever their case
localeCompareBase(a, b) ==
    compareKeys([i \in 1..Len(a) |-> LetterRank(a[i])], [i \in 1..Len(b) |-> LetterRank(b[i])])

\* page.tsx lines 106-117: the comparator of the sort in the browser
clientCompareFn(a, b, sort) ==
    IF sort.sortBy = S_patient_name
    THEN IF sort.sortOrder = S_asc THEN localeCompareBase(a.patient_name, b.patient_name)
         ELSE localeCompareBase(b.patient_name, a.patient_name)
    ELSE IF sort.sortBy = S_age
    THEN IF sort.sortOrder = S_asc THEN a.age - b.age ELSE b.age - a.age
    ELSE 0

RECURSIVE clientInsertSorted(_, _, _)
clientInsertSorted(xs, x, sort) ==
    IF xs # <<>> /\ clientCompareFn(xs[Len(xs)], x, sort) > 0
    THEN Append(clientInsertSorted(SubSeq(xs, 1, Len(xs) - 1), x, sort), xs[Len(xs)])
    ELSE Append(xs, x)

\* page.tsx lines 105-117: sortedData, a stable sort of the page received
RECURSIVE sortedData(_, _)
sortedData(xs, sort) ==
    IF xs = <<>> THEN <<>>
    ELSE clientInsertSorted(sortedData(SubSeq(xs, 1, Len(xs) - 1), sort), xs[Len(xs)], sort)

\* loadPatientsDone emptying the list when the load has failed
loadPatientsDone_DropsPatients(h, load, response) ==
    LET fetched == fetchPatients(response)
    IN  IF fetched.ok
        THEN [h EXCEPT !.patients = sortedData(fetched.data, load.sort),
                       !.totalPages = fetched.meta.totalPages.v,
                       !.totalCount = fetched.meta.total.v,
                       !.loading = FALSE]
        ELSE [h EXCEPT !.patients = <<>>, !.error = fetched.message, !.loading = FALSE]

\* page.tsx lines 98-125: loadPatients from the response on. The records of
\* the model have no contact, which is all that normalizedData touches.
loadPatientsDone(h, load, response) ==
    LET fetched == fetchPatients(response)
    IN  IF fetched.ok
        THEN [h EXCEPT !.patients = sortedData(fetched.data, load.sort),
                       !.totalPages = fetched.meta.totalPages.v,
                       !.totalCount = fetched.meta.total.v,
                       !.loading = FALSE]
        ELSE [h EXCEPT !.error = fetched.message, !.loading = FALSE]

\* page.tsx lines 79-80: loadPatients up to its await
loadPatientsStarted(h) == [h EXCEPT !.loading = TRUE, !.error = NoError]

\* handleSortChange leaving the page where it is
handleSortChange_KeepsPage(h, newSort) == [h EXCEPT !.sort = newSort]

\* page.tsx lines 132-135; newFilters gives the fields to replace
handleFilterChange(h, newFilters) ==
    [h EXCEPT !.filters = [k \in DOMAIN h.filters |->
                              IF k \in DOMAIN newFilters THEN newFilters[k] ELSE h.filters[k]],
              !.currentPage = 1]

\* page.tsx lines 137-140
handleSortChange(h, newSort) == [h EXCEPT !.sort = newSort, !.currentPage = 1]

\* page.tsx lines 142-144
handlePageChange(h, page) == [h EXCEPT !.currentPage = page]

\* page.tsx lines 71-74: the callback of the timer of debouncedSearch
searchCommitted(h, searchTerm) ==
    [h EXCEPT !.filters = [h.filters EXCEPT !.search = searchTerm], !.currentPage = 1]

\* SearchFilterBar.tsx line 77
hasActiveFilters(h, local) ==
    \/ Truthy(local)
    \/ Truthy(h.filters.ageMin)
    \/ Truthy(h.filters.ageMax)
    \/ Truthy(h.filters.medicalIssue)

\* SortDropdown.tsx: the options of the select, and the one that is selected
sortOptions ==
    { [sortBy |-> <<>>, sortOrder |-> S_asc],
      [sortBy |-> S_patient_name, sortOrder |-> S_asc],
      [sortBy |-> S_patient_name, sortOrder |-> S_desc],
      [sortBy |-> S_age, sortOrder |-> S_asc],
      [sortBy |-> S_age, sortOrder |-> S_desc] }

selectedOption(sort) ==
    IF Truthy(sort.sortBy) THEN sort ELSE [sortBy |-> <<>>, sortOrder |-> S_asc]

\* getPageNumbers starting the window at currentPage - 1, without Math.max(2, ...)
getPageNumbers_NoFloor(currentPage, totalPages) ==
    LET start == currentPage - 1
        end == IF totalPages - 1 < currentPage + 1 THEN totalPages - 1 ELSE currentPage + 1
    IN  IF totalPages <= 7 THEN [i \in 1..totalPages |-> i]
        ELSE <<1>>
             \o (IF currentPage > 3 THEN <<-1>> ELSE <<>>)
             \o [i \in 1..(end - start + 1) |-> start + i - 1]
             \o (IF currentPage < totalPages - 2 THEN <<-2>> ELSE <<>>)
             \o <<totalPages>>

\* Pagination (part_001) lines 8-40: the page buttons, -1 and -2 for the dots
getPageNumbers(currentPage, totalPages) ==
    LET start == IF currentPage - 1 > 2 THEN currentPage - 1 ELSE 2
        end == IF totalPages - 1 < currentPage + 1 THEN totalPages - 1 ELSE currentPage + 1
    IN  IF totalPages <= 7 THEN [i \in 1..totalPages |-> i]
        ELSE <<1>>
             \o (IF currentPage > 3 THEN <<-1>> ELSE <<>>)
             \o [i \in 1..(end - start + 1) |-> start + i - 1]
             \o (IF currentPage < totalPages - 2 THEN <<-2>> ELSE <<>>)
             \o <<totalPages>>

\* part_001 lines 42-46: the pages handlePrevious passes to onPageChange
previousRequested(currentPage) ==
    IF currentPage > 1 THEN <<currentPage - 1>> ELSE <<>>

\* part_001 lines 48-52: the pages handleNext passes to onPageChange
nextRequested(currentPage, totalPages) ==
    IF currentPage < totalPages THEN <<currentPage + 1>> ELSE <<>>

\* part_001 lines 82-109: the pages with a button, the dots left out
pageButtons(currentPage, totalPages) ==
    LET IsPage(page) == ~(page = -1 \/ page = -2)
    IN  SelectSeq(getPageNumbers(currentPage, totalPages), IsPage)

\* page.tsx lines 223-267: Pagination is on the page
paginationShown(h) ==
    /\ h.error = NoError
    /\ ~h.loading
    /\ Len(h.patients) # 0
    /\ h.totalPages > 1

\* the answer of a call that still awaits it
NoAnswer == [ok |-> FALSE, message |-> <<"pending">>]

\* the page when HomePage and SearchFilterBar have rendered first and their
\* effects have run: loadPatients awaits its response (page.tsx 128-130) and
\* the timer of the search box is set (SearchFilterBar.tsx 23-29)
Mounted ==
    /\ home = loadPatientsStarted(initialHome)
    /\ localSearch = initialHome.filters.search
    /\ timers = <<[owner |-> "SearchFilterBar", term |-> initialHome.filters.search]>>
    /\ inFlight = <<loadOf(initialHome)>>
    /\ latest = [load |-> loadOf(initialHome), arrived |-> FALSE, answer |-> NoAnswer]
    /\ user = [lastTyped |-> <<>>, cleared |-> FALSE, onlyEdits |-> TRUE,
               last |-> "mount", pageWas |-> 1, requested |-> <<>>, events |-> 0]

(***************************************************************************)
(* The state machine.                                                      *)
(***************************************************************************)
Init ==
    /\ \/ fileReadable = TRUE /\ patients \in DataFiles
       \/ fileReadable = FALSE /\ patients = <<>>
    /\ req = NoRequest
    /\ resp = NoResponse
    /\ calls = <<>>
    /\ arrays = NoArrays
    /\ Mounted

\* A handler runs from the request to its response in one step: it awaits
\* nothing (the file is read with readFileSync).
GET(searchParams) ==
    LET r == handleGET(patients, fileReadable, searchParams)
    IN  /\ req = NoRequest
        /\ req' = [method |-> "GET", params |-> searchParams, payload |-> "none"]
        /\ resp' = r.resp
        /\ calls' = r.calls
        /\ arrays' = arraysOfGET(patients, fileReadable, searchParams)
        /\ UNCHANGED <<patients, fileReadable>>
        /\ UNCHANGED browser

\* the handler takes no argument: it reads nothing of the request
POST(searchParams, payload) ==
    /\ req = NoRequest
    /\ req' = [method |-> "POST", params |-> searchParams, payload |-> payload]
    /\ resp' = methodNotAllowed
    /\ calls' = <<>>
    /\ arrays' = NoArrays
    /\ UNCHANGED <<patients, fileReadable>>
    /\ UNCHANGED browser

\* the handler takes no argument: it reads nothing of the request
PUT(searchParams, payload) ==
    /\ req = NoRequest
    /\ req' = [method |-> "PUT", params |-> searchParams, payload |-> payload]
    /\ resp' = methodNotAllowed
    /\ calls' = <<>>
    /\ arrays' = NoArrays
    /\ UNCHANGED <<patients, fileReadable>>
    /\ UNCHANGED browser

\* the handler takes no argument: it reads nothing of the request
DELETE(searchParams, payload) ==
    /\ req = NoRequest
    /\ req' = [method |-> "DELETE", params |-> searchParams, payload |-> payload]
    /\ resp' = methodNotAllowed
    /\ calls' = <<>>
    /\ arrays' = NoArrays
    /\ UNCHANGED <<patients, fileReadable>>
    /\ UNCHANGED browser

\* route.ts exports GET, POST, PUT and DELETE and nothing for PATCH: the
\* router answers a verb the module has no handler for itself, with status 405
\* and no body, and nothing of route.ts runs
PATCH(searchParams, payload) ==
    /\ req = NoRequest
    /\ req' = [method |-> "PATCH", params |-> searchParams, payload |-> payload]
    /\ resp' = [status |-> 405, body |-> [kind |-> "none"]]
    /\ calls' = <<>>
    /\ arrays' = NoArrays
    /\ UNCHANGED <<patients, fileReadable>>
    /\ UNCHANGED browser

\* The response is sent and everything the handler computed is dropped: all
\* of it lives in the handler's local variables, nothing is kept between
\* requests.
Sent ==
    /\ req # NoRequest
    /\ req' = NoRequest
    /\ resp' = NoResponse
    /\ calls' = <<>>
    /\ arrays' = NoArrays
    /\ UNCHANGED <<patients, fileReadable>>
    /\ UNCHANGED browser

Next ==
    \/ \E searchParams \in Requests : GET(searchParams)
    \/ \E searchParams \in VerbParams, payload \in Payloads : POST(searchParams, payload)
    \/ \E searchParams \in VerbParams, payload \in Payloads : PUT(searchParams, payload)
    \/ \E searchParams \in VerbParams, payload \in Payloads : DELETE(searchParams, payload)
    \/ \E searchParams \in VerbParams, payload \in Payloads : PATCH(searchParams, payload)
    \/ Sent

Spec == Init /\ [][Next]_vars

(***************************************************************************)
(* The page in the browser as a state machine. An event handler or a       *)
(* timer callback runs with the render and the effects that follow it as   *)
(* one step: its state updates are batched into one render (React 18), and *)
(* nothing else runs in between. All timers wait 300 ms, so they fire in   *)
(* the order they were set.                                                *)
(***************************************************************************)
\* the data file behind the page: more records than one page of 20 holds
patientsJson ==
    [i \in 1..21 |->
        [id |-> i,
         patient_name |-> << <<"A","l">>, <<"B","o">>, <<"a","l">>, <<"C","y">> >>[(i % 4) + 1],
         age |-> 20 + 5 * (i % 5),
         medical_issue |-> << V_flu, <<"r","a","s","h">>, <<"f","e","v","e","r">> >>[(i % 3) + 1]]]

\* what the user enters in the search box and in the age boxes, and the
\* options of the medical issue select they choose from
SearchTexts == {<<>>, <<"a">>, V_al}

AgeTexts == {<<>>, V_30, V_26y}

IssueOptions == {<<>>, <<"r","a","s","h">>}

\* the timers but the one of owner
Without(ts, owner) ==
    LET Other(t) == t.owner # owner IN SelectSeq(ts, Other)

\* The render after an update and the effects it runs. h and local are the
\* state of HomePage and of SearchFilterBar after the update, ts the timers
\* pending; replaced tells that filters or sort is a new object, or that
\* loadPatients is called directly.
\*   page.tsx 128-130: loadPatients runs when currentPage, filters or sort
\*     differ from those of the render before;
\*   SearchFilterBar.tsx 19-21: a changed filters.search is put into the box;
\*   SearchFilterBar.tsx 23-29: a changed text of the box clears the timer of
\*     the box and sets a new one.
Render(h, local, replaced, ts) ==
    LET reload == replaced \/ h.currentPage # home.currentPage
        shown == IF h.filters.search # home.filters.search THEN h.filters.search ELSE local
        rearmed == local # localSearch \/ shown # local
    IN  /\ home' = IF reload THEN loadPatientsStarted(h) ELSE h
        /\ localSearch' = shown
        /\ timers' = IF rearmed
                     THEN Append(Without(ts, "SearchFilterBar"),
                                 [owner |-> "SearchFilterBar", term |-> shown])
                     ELSE ts
        /\ inFlight' = IF reload THEN Append(inFlight, loadOf(h)) ELSE inFlight
        /\ latest' = IF reload
                     THEN [load |-> loadOf(h), arrived |-> FALSE, answer |-> NoAnswer]
                     ELSE latest

\* the user has acted: what is now the text they entered last, whether the
\* act was a click on Clear Filters or an edit of the search box, and the
\* pages Pagination passed to onPageChange
Acted(handler, typed, cleared, edit, requested) ==
    /\ user.events < MaxEvents
    /\ user' = [lastTyped |-> typed, cleared |-> cleared,
                onlyEdits |-> user.onlyEdits /\ edit,
                last |-> handler, pageWas |-> home.currentPage,
                requested |-> requested,
                events |-> user.events + 1]

\* a timer or a response has run
Ran(handler) == user' = [user EXCEPT !.last = handler, !.pageWas = home.currentPage]

\* SearchFilterBar.tsx 46-48: the user changes the text of the search box
handleSearchInputChange(value) ==
    /\ value # localSearch
    /\ Acted("handleSearchInputChange", value, FALSE, TRUE, <<>>)
    /\ Render(home, value, FALSE, timers)
    /\ UNCHANGED server

\* SearchFilterBar.tsx 106-111 and 213: the buttons that empty the search box
clearSearch ==
    /\ Truthy(localSearch)
    /\ Acted("clearSearch", <<>>, FALSE, TRUE, <<>>)
    /\ Render(home, <<>>, FALSE, timers)
    /\ UNCHANGED server

\* SearchFilterBar.tsx 49-54, and the button of line 228 for the empty value
handleAgeMinChange(value) ==
    /\ value # home.filters.ageMin
    /\ value = <<>> \/ \A i \in 1..Len(value) : IsDigit(value[i])
    /\ Acted("handleAgeMinChange", user.lastTyped, FALSE, FALSE, <<>>)
    /\ Render(handleFilterChange(home, [ageMin |-> value]), localSearch, TRUE, timers)
    /\ UNCHANGED server

\* SearchFilterBar.tsx 56-61, and the button of line 243 for the empty value
handleAgeMaxChange(value) ==
    /\ value # home.filters.ageMax
    /\ value = <<>> \/ \A i \in 1..Len(value) : IsDigit(value[i])
    /\ Acted("handleAgeMaxChange", user.lastTyped, FALSE, FALSE, <<>>)
    /\ Render(handleFilterChange(home, [ageMax |-> value]), localSearch, TRUE, timers)
    /\ UNCHANGED server

\* SearchFilterBar.tsx 63-65, and the button of line 258 for the empty value
handleMedicalIssueChange(value) ==
    /\ value # home.filters.medicalIssue
    /\ Acted("handleMedicalIssueChange", user.lastTyped, FALSE, FALSE, <<>>)
    /\ Render(handleFilterChange(home, [medicalIssue |-> value]), localSearch, TRUE, timers)
    /\ UNCHANGED server

\* SearchFilterBar.tsx 67-75; the button is disabled without active filters
\* (lines 190-191)
clearAllFilters ==
    /\ hasActiveFilters(home, localSearch)
    /\ Acted("clearAllFilters", <<>>, TRUE, FALSE, <<>>)
    /\ Render(handleFilterChange(home, [search |-> <<>>, ageMin |-> <<>>, ageMax |-> <<>>,
                                        medicalIssue |-> <<>>]),
              <<>>, TRUE, timers)
    /\ UNCHANGED server

\* SortDropdown.tsx 14-45: the user selects another option
sortSelected(option) ==
    /\ option # selectedOption(home.sort)
    /\ Acted("handleSortChange", user.lastTyped, FALSE, FALSE, <<>>)
    /\ Render(handleSortChange(home, option), localSearch, TRUE, timers)
    /\ UNCHANGED server

\* part_001 lines 42-46; the button is disabled on page 1
handlePrevious ==
    /\ paginationShown(home)
    /\ home.currentPage # 1
    /\ home.currentPage > 1
    /\ Acted("handlePageChange", user.lastTyped, FALSE, FALSE, <<home.currentPage - 1>>)
    /\ Render(handlePageChange(home, home.currentPage - 1), localSearch, FALSE, timers)
    /\ UNCHANGED server

\* part_001 lines 48-52; the button is disabled on the last page
handleNext ==
    /\ paginationShown(home)
    /\ home.currentPage # home.totalPages
    /\ home.currentPage < home.totalPages
    /\ Acted("handlePageChange", user.lastTyped, FALSE, FALSE, <<home.currentPage + 1>>)
    /\ Render(handlePageChange(home, home.currentPage + 1), localSearch, FALSE, timers)
    /\ UNCHANGED server

\* part_001 lines 82-109: a click on the button of another page than the
\* current one (a click on the current one changes nothing)
pageClicked(page) ==
    /\ paginationShown(home)
    /\ \E i \in DOMAIN getPageNumbers(home.currentPage, home.totalPages) :
           getPageNumbers(home.currentPage, home.totalPages)[i] = page
    /\ page > 0
    /\ page # home.currentPage
    /\ Acted("handlePageChange", user.lastTyped, FALSE, FALSE, <<page>>)
    /\ Render(handlePageChange(home, page), localSearch, FALSE, timers)
    /\ UNCHANGED server

\* page.tsx 223-228: Try Again, shown with the error, calls loadPatients
tryAgain ==
    /\ home.error # NoError
    /\ Acted("loadPatients", user.lastTyped, FALSE, FALSE, <<>>)
    /\ Render(home, localSearch, TRUE, timers)
    /\ UNCHANGED server

\* SearchFilterBar.tsx 24-26: the timer of the search box fires and calls
\* debouncedSearch (page.tsx 67-75), which clears its own timer and sets it
searchBoxTimeout ==
    /\ timers # <<>>
    /\ Head(timers).owner = "SearchFilterBar"
    /\ timers' = Append(Without(Tail(timers), "debouncedSearch"),
                        [owner |-> "debouncedSearch", term |-> Head(timers).term])
    /\ Ran("onSearchChange")
    /\ UNCHANGED <<home, localSearch, inFlight, latest>>
    /\ UNCHANGED server

\* page.tsx 71-74: the timer of debouncedSearch fires
debouncedSearchTimeout ==
    /\ timers # <<>>
    /\ Head(timers).owner = "debouncedSearch"
    /\ Ran("debouncedSearch")
    /\ Render(searchCommitted(home, Head(timers).term), localSearch, TRUE, Tail(timers))
    /\ UNCHANGED server

\* page.tsx 98-125: the response of one of the awaited calls arrives, in any
\* order; the server answers as GET of route.ts does
responseArrived(i) ==
    LET load == inFlight[i]
        response == handleGET(patients, fileReadable, load.params).resp
    IN  /\ home' = loadPatientsDone(home, load, response)
        /\ inFlight' = SubSeq(inFlight, 1, i - 1) \o SubSeq(inFlight, i + 1, Len(inFlight))
        /\ latest' = IF i = Len(inFlight) /\ ~latest.arrived
                     THEN [latest EXCEPT !.arrived = TRUE, !.answer = fetchPatients(response)]
                     ELSE latest
        /\ Ran("loadPatients")
        /\ UNCHANGED <<localSearch, timers>>
        /\ UNCHANGED server

\* route.ts 25-34 reads the data file for every request: the file is lost, or
\* is back
fileChanged ==
    /\ user.events < MaxEvents
    /\ fileReadable' = ~fileReadable
    /\ user' = [user EXCEPT !.events = user.events + 1]
    /\ UNCHANGED <<patients, req, resp, calls, arrays>>
    /\ UNCHANGED <<home, localSearch, timers, inFlight, latest>>

InitUI ==
    /\ patients = patientsJson
    /\ fileReadable = TRUE
    /\ req = NoRequest
    /\ resp = NoResponse
    /\ calls = <<>>
    /\ arrays = NoArrays
    /\ Mounted

NextUI ==
    \/ \E value \in SearchTexts : handleSearchInputChange(value)
    \/ clearSearch
    \/ \E value \in AgeTexts : handleAgeMinChange(value)
    \/ \E value \in AgeTexts : handleAgeMaxChange(value)
    \/ \E value \in IssueOptions : handleMedicalIssueChange(value)
    \/ clearAllFilters
    \/ \E option \in sortOptions : sortSelected(option)
    \/ handlePrevious
    \/ handleNext
    \/ \E page \in 1..home.totalPages : pageClicked(page)
    \/ tryAgain
    \/ searchBoxTimeout
    \/ debouncedSearchTimeout
    \/ \E i \in 1..Len(inFlight) : responseArrived(i)
    \/ fileChanged

SpecUI == InitUI /\ [][NextUI]_vars

(***************************************************************************)
(* The page with a network and a server that may fail in every way         *)
(* fetchPatients tells apart. The user turns pages and tries again.        *)
(***************************************************************************)
\* what fetch may come back with for a call of loadPatients: the answer of
\* route.ts to its query, with the data file readable (200) or not (500); the
\* answers of route.ts to a bad sortBy (400) and to a page that is no number
\* (200 with meta.page null); a body without data and one without meta; a
\* rejected fetch, with the message of one browser and of another
Responses(load) ==
    { handleGET(patients, readable, load.params).resp : readable \in BOOLEAN }
    \cup { handleGET(patients, TRUE, [load.params EXCEPT !.sortBy = V_height]).resp,
           handleGET(patients, TRUE, [load.params EXCEPT !.page = V_abc]).resp,
           [status |-> 200, body |-> [kind |-> "object"]],
           [status |-> 200, body |-> [kind |-> "object", data |-> <<>>]],
           rejected(<<"F","a","i","l","e","d"," ","t","o"," ","f","e","t","c","h">>),
           rejected(<<"L","o","a","d"," ","f","a","i","l","e","d">>) }

\* page.tsx 98-125: one of the awaited calls gets this response
responseReceived(i, response) ==
    /\ i \in 1..Len(inFlight)
    /\ response \in Responses(inFlight[i])
    /\ home' = loadPatientsDone(home, inFlight[i], response)
    /\ inFlight' = SubSeq(inFlight, 1, i - 1) \o SubSeq(inFlight, i + 1, Len(inFlight))
    /\ latest' = IF i = Len(inFlight) /\ ~latest.arrived
                 THEN [latest EXCEPT !.arrived = TRUE, !.answer = fetchPatients(response)]
                 ELSE latest
    /\ Ran(IF fetchPatients(response).ok THEN "loadPatients" ELSE "loadPatients: catch")
    /\ UNCHANGED <<localSearch, timers>>
    /\ UNCHANGED server

NextLoad ==
    \/ handlePrevious
    \/ handleNext
    \/ \E page \in 1..home.totalPages : pageClicked(page)
    \/ tryAgain
    \/ searchBoxTimeout
    \/ debouncedSearchTimeout
    \/ \E i \in 1..Len(inFlight) : \E response \in Responses(inFlight[i]) :
           responseReceived(i, response)

SpecLoad == InitUI /\ [][NextLoad]_vars

(***************************************************************************)
(* The Pagination control by itself: it is rendered with a current page    *)
(* and a number of pages, and the page it passes to onPageChange is its    *)
(* current page at the next render; the number of pages stays.             *)
(***************************************************************************)
\* the largest number of pages the control is rendered with
MaxPages == 9

\* a button of Pagination was clicked and has passed these pages to
\* onPageChange, handlePageChange of page.tsx 142-144
Clicked(button, requested) ==
    /\ home' = IF requested = <<>> THEN home ELSE handlePageChange(home, requested[1])
    /\ user' = [user EXCEPT !.last = button, !.pageWas = home.currentPage,
                            !.requested = requested]
    /\ UNCHANGED <<localSearch, timers, inFlight, latest>>
    /\ UNCHANGED server

\* part_001 lines 63-79: Previous, disabled on page 1
previousButton ==
    /\ home.totalPages > 1
    /\ home.currentPage # 1
    /\ Clicked("handlePrevious", previousRequested(home.currentPage))

\* part_001 lines 112-128: Next, disabled on the last page
nextButton ==
    /\ home.totalPages > 1
    /\ home.currentPage # home.totalPages
    /\ Clicked("handleNext", nextRequested(home.currentPage, home.totalPages))

\* part_001 lines 82-109: the button of a page
pageButton(i) ==
    /\ home.totalPages > 1
    /\ i \in DOMAIN pageButtons(home.currentPage, home.totalPages)
    /\ Clicked("onPageChange", <<pageButtons(home.currentPage, home.totalPages)[i]>>)

\* the control rendered with any current page among its pages
InitPagination ==
    /\ patients = patientsJson
    /\ fileReadable = TRUE
    /\ req = NoRequest
    /\ resp = NoResponse
    /\ calls = <<>>
    /\ arrays = NoArrays
    /\ \E totalPages \in 1..MaxPages : \E currentPage \in 1..totalPages :
           home = [initialHome EXCEPT !.loading = FALSE,
                                      !.currentPage = currentPage,
                                      !.totalPages = totalPages]
    /\ localSearch = <<>>
    /\ timers = <<>>
    /\ inFlight = <<>>
    /\ latest = [load |-> loadOf(initialHome), arrived |-> TRUE, answer |-> NoAnswer]
    /\ user = [lastTyped |-> <<>>, cleared |-> FALSE, onlyEdits |-> TRUE,
               last |-> "mount", pageWas |-> 1, requested |-> <<>>, events |-> 0]

NextPagination ==
    \/ previousButton
    \/ nextButton
    \/ \E i \in 1..MaxPages : pageButton(i)

SpecPagination == InitPagination /\ [][NextPagination]_vars

(***************************************************************************)
(* What the claims speak of.                                               *)
(***************************************************************************)
\* a GET request has been answered with the result of the pipeline
Served == req.method = "GET" /\ resp.status = 200

\* the sort parameters as the handler reads them
SortByOf(params) == OrElse(params.sortBy, <<>>)

SortOrderOf(params) == OrElse(params.sortOrder, S_asc)

\* what the filter stage returns for the request
Filtered == filterPatients(patients, req.params)

\* what the sort stage returns for the request, the input of the paginate stage
Ordered == sortPatients(Filtered, SortByOf(req.params), SortOrderOf(req.params))

\* the data arrays of pages 1..n of xs, one after the other
RECURSIVE PagesUpTo(_, _, _)
PagesUpTo(xs, n, limit) ==
    IF n = 0 THEN <<>>
    ELSE PagesUpTo(xs, n - 1, limit) \o paginateResults(xs, Num(n), Num(limit)).data

RECURSIVE PageLengthsUpTo(_, _, _)
PageLengthsUpTo(xs, n, limit) ==
    IF n = 0 THEN 0
    ELSE PageLengthsUpTo(xs, n - 1, limit) + Len(paginateResults(xs, Num(n), Num(limit)).data)

\* the place of the record with this id in xs (0 when it is not there)
PlaceOf(xs, id) ==
    IF \E i \in 1..Len(xs) : xs[i].id = id
    THEN CHOOSE i \in 1..Len(xs) : xs[i].id = id
    ELSE 0

\* C1: for every limit in 1..100 the pages 1..totalPages of the filtered and
\* sorted records, one after the other, are exactly those records in their
\* order, and the page lengths add up to meta.total.
C1_PagesPartition ==
    Served =>
        \A xs \in {Ordered} :
            \A limit \in 1..MaxLimit :
                LET first == paginateResults(xs, Num(1), Num(limit))
                    n == first.meta.totalPages.v
                IN  /\ first.meta.total = Num(Len(xs))
                    /\ resp.body.meta.total = Num(Len(xs))
                    /\ PagesUpTo(xs, n, limit) = xs
                    /\ PageLengthsUpTo(xs, n, limit) = Len(xs)

\* the second of two pages was asked for: three records, limit 2
C1_Witness ==
    /\ Served
    /\ resp.body.meta.total = Num(3)
    /\ resp.body.meta.limit = Num(2)
    /\ resp.body.meta.page = Num(2)
    /\ resp.body.meta.totalPages = Num(2)
    /\ Len(resp.body.data) = 1

\* the least n with n * limit >= total
CeilOf(total, limit) ==
    CHOOSE n \in 0..total : n * limit >= total /\ \A m \in 0..(n - 1) : m * limit < total

\* the page and limit of the answer are numbers
NumericPaging ==
    Served /\ resp.body.meta.page.k = "num" /\ resp.body.meta.limit.k = "num"

\* the answer to the same request asking for page 1
AnswerForPageOne == handleGET(patients, fileReadable, [req.params EXCEPT !.page = S_1]).resp

\* C2: totalPages is ceil(total / limit), 0 when total is 0, and a request for
\* a page after the last one is answered 200 with no data and with the total
\* and the limit of the request for page 1.
C2_TotalPagesAndBeyond ==
    NumericPaging =>
        LET meta == resp.body.meta
        IN  /\ meta.total = Num(Len(Ordered))
            /\ meta.totalPages = Num(CeilOf(meta.total.v, meta.limit.v))
            /\ (meta.total.v = 0 => meta.totalPages.v = 0)
            /\ (meta.page.v > meta.totalPages.v =>
                    /\ resp.body.data = <<>>
                    /\ AnswerForPageOne.status = 200
                    /\ meta.total = AnswerForPageOne.body.meta.total
                    /\ meta.limit = AnswerForPageOne.body.meta.limit)

\* page totalPages + 1 of a result that is not empty
C2_Witness ==
    /\ NumericPaging
    /\ resp.body.meta.total.v > 0
    /\ resp.body.meta.page.v = resp.body.meta.totalPages.v + 1
    /\ resp.body.data = <<>>

\* C3: with sortBy=age the sort stage returns a permutation of its input, by
\* age non-decreasing for asc and non-increasing for desc, and in both
\* directions records of equal age stay in their input order.
C3_AgeSortStable ==
    (Served /\ SortByOf(req.params) = S_age) =>
        LET in == Filtered
            out == sortPatients(in, S_age, SortOrderOf(req.params))
            desc == SortOrderOf(req.params) = S_desc
        IN  /\ Len(out) = Len(in)
            /\ \A i \in 1..Len(in) : \E j \in 1..Len(out) : out[j] = in[i]
            /\ \A i, j \in 1..Len(out) :
                   i < j =>
                       /\ (~desc => out[i].age <= out[j].age)
                       /\ (desc => out[i].age >= out[j].age)
                       /\ (out[i].age = out[j].age =>
                               PlaceOf(in, out[i].id) < PlaceOf(in, out[j].id))

\* a descending sort of three records, two of equal age that were not
\* neighbours in the input
C3_Witness ==
    /\ Served
    /\ req.params.sortBy = S_age
    /\ req.params.sortOrder = S_desc
    /\ Len(resp.body.data) = 3
    /\ Len(Filtered) = 3
    /\ Filtered[1].age = Filtered[3].age
    /\ Filtered[2].age < Filtered[1].age
    /\ resp.body.data = <<Filtered[1], Filtered[3], Filtered[2]>>

\* a record passes a step when the step keeps it
PassesSearch(p, params) == searchStep(<<p>>, params) = <<p>>

PassesAgeMin(p, params) == ageMinStep(<<p>>, params) = <<p>>

PassesAgeMax(p, params) == ageMaxStep(<<p>>, params) = <<p>>

PassesMedicalIssue(p, params) == medicalIssueStep(<<p>>, params) = <<p>>

PassesAll(p, params) ==
    /\ PassesSearch(p, params)
    /\ PassesAgeMin(p, params)
    /\ PassesAgeMax(p, params)
    /\ PassesMedicalIssue(p, params)

\* the records of xs that pass every predicate, in the order of xs
RECURSIVE KeepPassing(_, _)
KeepPassing(xs, params) ==
    IF xs = <<>> THEN <<>>
    ELSE (IF PassesAll(Head(xs), params) THEN <<Head(xs)>> ELSE <<>>)
         \o KeepPassing(Tail(xs), params)

\* C4: the filter stage returns exactly the records that pass the search, the
\* ageMin, the ageMax and the medical_issue predicate, in their original
\* order.
C4_FilterIsConjunction ==
    Served =>
        /\ Filtered = KeepPassing(patients, req.params)
        /\ resp.body.meta.total = Num(Len(KeepPassing(patients, req.params)))

\* all four predicates are active, each of the first three records fails a
\* different one or passes, and some record is kept and some dropped
C4_Witness ==
    /\ Served
    /\ \A k \in {"search", "ageMin", "ageMax", "medical_issue"} : Truthy(req.params[k])
    /\ Len(patients) = 3
    /\ \E i, j \in 1..3 :
           /\ PassesSearch(patients[i], req.params)
           /\ ~PassesMedicalIssue(patients[i], req.params)
           /\ ~PassesSearch(patients[j], req.params)
    /\ resp.body.meta.total.v >= 1
    /\ resp.body.meta.total.v < 3

\* the request names a sort field or a sort order that is not allowed
BadSort ==
    /\ req.method = "GET"
    /\ \/ Truthy(req.params.sortBy) /\ req.params.sortBy \notin {S_age, S_patient_name}
       \/ Truthy(req.params.sortOrder) /\ req.params.sortOrder \notin {S_asc, S_desc}

\* C5: a GET request with a sortBy other than age and patient_name, or a
\* sortOrder other than asc and desc, is answered 400 with an error that names
\* the allowed values, and neither the loader nor any stage has run.
C5_BadSortRejected ==
    BadSort =>
        /\ resp.status = 400
        /\ resp.body.kind = "error"
        /\ resp.body.error \in {"Invalid sortBy field. Must be one of: age, patient_name",
                                "Invalid sortOrder. Must be one of: asc, desc"}
        /\ calls = <<>>

\* sortBy=height, with a data file that holds records and can be read
C5_Witness ==
    /\ BadSort
    /\ req.params.sortBy = V_height
    /\ fileReadable
    /\ Len(patients) > 0
    /\ resp.status = 400

\* C6: whatever the raw page parameter, the page of the answer is an integer
\* that is at least 1, and 1 when the parameter is absent.
C6_PageAtLeastOne ==
    Served =>
        /\ resp.body.meta.page.k = "num"
        /\ resp.body.meta.page.v >= 1
        /\ (req.params.page = NULL => resp.body.meta.page = Num(1))

\* C7: whatever the raw limit parameter, the limit of the answer is an integer
\* in 1..100, 20 when the parameter is absent, and data holds at most 100
\* records.
C7_LimitInRange ==
    Served =>
        /\ resp.body.meta.limit.k = "num"
        /\ resp.body.meta.limit.v >= 1
        /\ resp.body.meta.limit.v <= 100
        /\ (req.params.limit = NULL => resp.body.meta.limit = Num(20))
        /\ Len(resp.body.data) <= 100

\* s is the decimal writing of an integer: digits, after an optional sign
IsIntegerText(s) ==
    LET u == IF s # <<>> /\ (Head(s) = "-" \/ Head(s) = "+") THEN Tail(s) ELSE s
    IN  u # <<>> /\ \A i \in 1..Len(u) : IsDigit(u[i])

\* the integer that s writes
IntegerOf(s) ==
    IF Head(s) = "-" THEN 0 - DigitsValue(Tail(s))
    ELSE IF Head(s) = "+" THEN DigitsValue(Tail(s))
    ELSE DigitsValue(s)

\* an age bound counts when the parameter is there and writes an integer
BoundGiven(raw) == raw # NULL /\ IsIntegerText(raw)

\* the age filter of the claim: both bounds inclusive, each on its own
InAgeRange(p, params) ==
    /\ (BoundGiven(params.ageMin) => p.age >= IntegerOf(params.ageMin))
    /\ (BoundGiven(params.ageMax) => p.age <= IntegerOf(params.ageMax))

RECURSIVE KeepInAgeRange(_, _)
KeepInAgeRange(xs, params) ==
    IF xs = <<>> THEN <<>>
    ELSE (IF InAgeRange(Head(xs), params) THEN <<Head(xs)>> ELSE <<>>)
         \o KeepInAgeRange(Tail(xs), params)

\* C8: a record passes the age filter exactly when its age is at least ageMin
\* (if given) and at most ageMax (if given); a bound that is not numeric counts
\* as absent and raises no error; ageMin > ageMax is answered 200 with no data
\* and total 0.
C8_AgeBounds ==
    (req.method = "GET" /\ fileReadable /\ ~BadSort) =>
        /\ resp.status = 200
        /\ ageMaxStep(ageMinStep(patients, req.params), req.params)
               = KeepInAgeRange(patients, req.params)
        /\ (/\ BoundGiven(req.params.ageMin)
            /\ BoundGiven(req.params.ageMax)
            /\ IntegerOf(req.params.ageMin) > IntegerOf(req.params.ageMax)
            => resp.body.data = <<>> /\ resp.body.meta.total = Num(0))

\* a and b are the same text but for the case of their letters
EqualIgnoringCase(a, b) ==
    Len(a) = Len(b) /\ \A i \in 1..Len(a) : LowerChar(a[i]) = LowerChar(b[i])

\* the items of a comma-separated list: the stretches without a comma that a
\* comma or an end of the text bounds on either side, as <<first, last>>
ListItems(s) ==
    { <<i, j>> \in (1..(Len(s) + 1)) \X (0..Len(s)) :
        /\ j >= i - 1
        /\ \A k \in i..j : s[k] # ","
        /\ (i = 1 \/ s[i - 1] = ",")
        /\ (j = Len(s) \/ s[j + 1] = ",") }

\* the item without the whitespace around it
Stripped(s, item) ==
    LET inner == { k \in item[1]..item[2] : ~IsWhite(s[k]) }
    IN  IF inner = {} THEN <<>>
        ELSE SubSeq(s, CHOOSE k \in inner : \A m \in inner : k <= m,
                       CHOOSE k \in inner : \A m \in inner : k >= m)

\* the medical-issue filter of the claim
IssueListed(p, raw) ==
    (raw # NULL /\ raw # <<>>) =>
        \E item \in ListItems(raw) : EqualIgnoringCase(Stripped(raw, item), p.medical_issue)

RECURSIVE KeepListed(_, _)
KeepListed(xs, raw) ==
    IF xs = <<>> THEN <<>>
    ELSE (IF IssueListed(Head(xs), raw) THEN <<Head(xs)>> ELSE <<>>)
         \o KeepListed(Tail(xs), raw)

\* C9: a record passes the medical-issue filter exactly when its issue equals
\* one of the comma-separated items, case and the whitespace around the items
\* ignored; an absent or empty parameter filters nothing.
C9_MedicalIssueUnion ==
    Served =>
        /\ medicalIssueStep(patients, req.params)
               = KeepListed(patients, req.params.medical_issue)
        /\ (/\ req.params.search = NULL
            /\ req.params.ageMin = NULL
            /\ req.params.ageMax = NULL
            => resp.body.meta.total
                   = Num(Len(KeepListed(patients, req.params.medical_issue))))

\* a list of two items, in other case and with whitespace, that keeps a record
\* of each issue and drops none
C9_Witness ==
    /\ Served
    /\ req.params.medical_issue = V_FluRash
    /\ Len(patients) = 3
    /\ Len(resp.body.data) = 3
    /\ \E i, j \in 1..3 :
           /\ toLowerCase(resp.body.data[i].medical_issue) = V_flu
           /\ resp.body.data[j].medical_issue # V_flu
           /\ resp.body.data[j].medical_issue # resp.body.data[i].medical_issue

\* t occurs in s, case ignored
ContainsIgnoringCase(s, t) ==
    \E i \in 0..(Len(s) - Len(t)) :
        \A k \in 1..Len(t) : LowerChar(s[i + k]) = LowerChar(t[k])

\* the text search of the claim
SearchMatches(p, raw) ==
    (raw # NULL /\ raw # <<>>) =>
        \/ ContainsIgnoringCase(p.patient_name, raw)
        \/ ContainsIgnoringCase(p.medical_issue, raw)

RECURSIVE KeepMatching(_, _)
KeepMatching(xs, raw) ==
    IF xs = <<>> THEN <<>>
    ELSE (IF SearchMatches(Head(xs), raw) THEN <<Head(xs)>> ELSE <<>>)
         \o KeepMatching(Tail(xs), raw)

\* C10: a record passes the text search exactly when the term, case ignored,
\* is a substring of its name or of its medical issue; an absent or empty term
\* matches every record.
C10_SearchSubstring ==
    Served =>
        /\ searchStep(patients, req.params) = KeepMatching(patients, req.params.search)
        /\ (/\ req.params.ageMin = NULL
            /\ req.params.ageMax = NULL
            /\ req.params.medical_issue = NULL
            => resp.body.meta.total = Num(Len(KeepMatching(patients, req.params.search))))

\* an upper-case term found in the issue of one record and in the name of
\* none, another record dropped
C10_Witness ==
    /\ Served
    /\ req.params.search = V_RA
    /\ Len(patients) = 3
    /\ Len(resp.body.data) = 2
    /\ \A i \in 1..2 : ~ContainsIgnoringCase(resp.body.data[i].patient_name, V_RA)


\* C11: with sortBy=patient_name two records whose names differ only in the
\* case of their letters compare as equal and so stay in their input order,
\* for asc and for desc.
C11_NameSortIgnoresCase ==
    (Served /\ SortByOf(req.params) = S_patient_name) =>
        \A in \in {Filtered} :
            \A out \in {sortPatients(in, S_patient_name, SortOrderOf(req.params))} :
                \A i, j \in 1..Len(out) :
                    (i < j /\ EqualIgnoringCase(out[i].patient_name, out[j].patient_name)) =>
                        /\ compareFn(out[i], out[j], S_patient_name, SortOrderOf(req.params)) = 0
                        /\ PlaceOf(in, out[i].id) < PlaceOf(in, out[j].id)

\* some record is kept by the filters and some record is dropped
FilterSelects == Served /\ Len(Filtered) >= 1 /\ Len(Filtered) < Len(patients)

\* C12: filtering the result of the filter stage again with the same
\* parameters returns it unchanged.
C12_FilterIdempotent ==
    Served => \A once \in {Filtered} : filterPatients(once, req.params) = once

\* a search and an age bound that keep two records of three
C12_Witness ==
    /\ FilterSelects
    /\ Truthy(req.params.search)
    /\ Truthy(req.params.ageMin)
    /\ Len(patients) = 3
    /\ Len(Filtered) = 2


\* C13: when the three stages have run, the loaded array and the array each
\* stage was given hold what they held at the call, and every record of the
\* answer is a record of the loaded array.
C13_StagesLeaveInputs ==
    Served =>
        /\ arrays.cells[arrays.loaded] = patients
        /\ \A stage \in {"filterPatients", "sortPatients", "paginateResults"} :
               arrays.cells[arrays.given[stage].at] = arrays.given[stage].held
        /\ arrays.cells[arrays.returned] = resp.body.data
        /\ \A i \in 1..Len(resp.body.data) :
               \E k \in 1..Len(patients) : resp.body.data[i] = patients[k]

\* a sort that reorders the filtered records: the array the sort stage
\* returns is another one than the array it was given
C13_Witness ==
    /\ Served
    /\ Truthy(req.params.sortBy)
    /\ Truthy(req.params.search)
    /\ Len(Filtered) >= 2
    /\ Ordered # Filtered
    /\ arrays.given["paginateResults"].at # arrays.given["sortPatients"].at
    /\ arrays.cells[arrays.given["sortPatients"].at] = Filtered


\* C14: when the loader throws, a GET request whose sort parameters are valid
\* is answered 500 with a body of error and message and nothing else, and
\* after the loader no stage has run.
C14_LoadFailure ==
    (req.method = "GET" /\ ~fileReadable /\ ~BadSort) =>
        /\ resp.status = 500
        /\ DOMAIN resp.body = {"kind", "error", "message"}
        /\ resp.body.kind = "error"
        /\ resp.body.error = "Internal server error"
        /\ resp.body.message = "Failed to load patients data"
        /\ calls = <<"loadPatientsData">>
        /\ arrays = NoArrays

\* a sorted, filtered request for a file that cannot be read
C14_Witness ==
    /\ req.method = "GET"
    /\ ~fileReadable
    /\ Truthy(req.params.sortBy)
    /\ Truthy(req.params.search)
    /\ ~BadSort
    /\ resp.status = 500

\* C15: a request with a verb that changes the resource (POST, PUT, PATCH,
\* DELETE) is answered 405 with an error body, whatever its payload and query
\* string, and neither the loader nor any stage has run.
C15_MutatingVerbsRejected ==
    req.method \in {"POST", "PUT", "PATCH", "DELETE"} =>
        /\ resp.status = 405
        /\ resp.body.kind = "error"
        /\ resp.body.error = "Method not allowed"
        /\ calls = <<>>
        /\ arrays = NoArrays

\* the records of xs from the one after index from up to index to
PageSlice(xs, from, to) ==
    SubSeq(xs, from + 1, IF to < Len(xs) THEN to ELSE Len(xs))

\* C16: without a sortBy the sort stage returns its input as it is, for every
\* sortOrder, and the data of the answer is the requested page of the filtered
\* records, which are in the order of the file.
C16_NoSortKeepsLoadOrder ==
    (Served /\ ~Truthy(req.params.sortBy)) =>
        \A in \in {Filtered} :
            /\ Ordered = in
            /\ \A sortOrder \in SortOrderRaw : sortPatients(in, SortByOf(req.params), sortOrder) = in
            /\ \A i, j \in 1..Len(in) :
                   i < j => PlaceOf(patients, in[i].id) < PlaceOf(patients, in[j].id)
            /\ NumericPaging =>
                   LET meta == resp.body.meta
                   IN  resp.body.data =
                           PageSlice(in, (meta.page.v - 1) * meta.limit.v, meta.page.v * meta.limit.v)

\* page 2 of three unsorted records with sortOrder=desc
C16_Witness ==
    /\ Served
    /\ ~Truthy(req.params.sortBy)
    /\ req.params.sortOrder = S_desc
    /\ NumericPaging
    /\ resp.body.meta.page.v = 2
    /\ Len(Filtered) = 3
    /\ resp.body.data = <<patients[3]>>


\* the timers have all fired
Settled == timers = <<>>


\* C17: when the user has only edited the search box and the timers have all
\* fired, the search term of the filters and the text of the search box are
\* the text the user entered last.
C17_DebounceDeliversLastText ==
    (user.onlyEdits /\ Settled) =>
        /\ home.filters.search = user.lastTyped
        /\ localSearch = user.lastTyped

\* C18: when every response has arrived, patients, totalPages, totalCount and
\* error are those of the response to the call of loadPatients made last.
C18_LatestResponseShown ==
    inFlight = <<>> =>
        IF latest.answer.ok
        THEN /\ home.patients = sortedData(latest.answer.data, latest.load.sort)
             /\ home.totalPages = latest.answer.meta.totalPages.v
             /\ home.totalCount = latest.answer.meta.total.v
             /\ home.error = NoError
        ELSE home.error = latest.answer.message

\* C19: when Clear Filters was the last thing the user did and the timers have
\* all fired, the four filters and the search box are empty.
C19_ClearFiltersStays ==
    (user.cleared /\ Settled) =>
        /\ home.filters = initialHome.filters
        /\ localSearch = <<>>


\* the filter and sort parameters of a query
filterAndSortOf(params) == [params EXCEPT !.page = S_1]

\* C20: a step that changes the filters or the sort leaves currentPage at 1,
\* a query that differs in its filter or sort parameters from the query sent
\* before it carries page=1, and a step that moves currentPage to another
\* value than 1 is a call of handlePageChange.
C20_FilterOrSortChangeResetsPage ==
    [][/\ (home'.filters # home.filters \/ home'.sort # home.sort) => home'.currentPage = 1
       /\ (/\ Len(inFlight') = Len(inFlight) + 1
           /\ filterAndSortOf(latest'.load.params) # filterAndSortOf(latest.load.params))
              => /\ latest'.load = inFlight'[Len(inFlight')]
                 /\ latest'.load.params.page = S_1
       /\ (home'.currentPage # home.currentPage /\ home'.currentPage # 1)
              => user'.last = "handlePageChange"]_vars

\* the sort was changed on page 2: the page is 1 and the query sent carries
\* the new sort and page=1
C20_Witness ==
    /\ user.last = "handleSortChange"
    /\ user.pageWas = 2
    /\ home.currentPage = 1
    /\ home.sort.sortBy = S_age
    /\ latest.load.params.sortBy = S_age
    /\ latest.load.params.page = S_1
    /\ ~latest.arrived


\* C21: whatever buttons are clicked, the current page stays within
\* 1..totalPages and so does every page passed to onPageChange; Previous on
\* page 1 and Next on the last page pass nothing; the pages with a button are
\* within 1..totalPages, strictly ascending, and page 1, the current page and
\* the last page are among them.
C21_PaginationWithinRange ==
    LET currentPage == home.currentPage
        totalPages == home.totalPages
        offered == pageButtons(currentPage, totalPages)
    IN  /\ currentPage \in 1..totalPages
        /\ \A i \in DOMAIN user.requested : user.requested[i] \in 1..totalPages
        /\ currentPage = 1 => previousRequested(currentPage) = <<>>
        /\ currentPage = totalPages => nextRequested(currentPage, totalPages) = <<>>
        /\ \A i \in DOMAIN offered : offered[i] \in 1..totalPages
        /\ \A i, j \in DOMAIN offered : i < j => offered[i] < offered[j]
        /\ \A page \in {1, currentPage, totalPages} :
               \E i \in DOMAIN offered : offered[i] = page

\* Next was clicked and the current page of nine has dots on both sides
C21_Witness ==
    /\ user.last = "handleNext"
    /\ user.requested = <<home.currentPage>>
    /\ user.pageWas = home.currentPage - 1
    /\ home.totalPages = MaxPages
    /\ getPageNumbers(home.currentPage, home.totalPages)
           = <<1, -1, home.currentPage - 1, home.currentPage, home.currentPage + 1, -2,
               home.totalPages>>


\* the message of an error, put together from its parts, is not empty
NonEmptyMessage(error) ==
    /\ error # NoError
    /\ error # <<>>
    /\ \A i \in DOMAIN error : error[i] # ""

\* C22: a response that makes the load fail sets a message that is not empty
\* as error and loading to false, and leaves patients, totalPages and
\* totalCount as they were; a call of loadPatients sets error to null.
C22_FailedLoadKeepsList ==
    [][/\ user'.last = "loadPatients: catch" =>
              /\ Len(inFlight') = Len(inFlight) - 1
              /\ NonEmptyMessage(home'.error)
              /\ ~home'.loading
              /\ home'.patients = home.patients
              /\ home'.totalPages = home.totalPages
              /\ home'.totalCount = home.totalCount
       /\ Len(inFlight') = Len(inFlight) + 1 => home'.error = NoError /\ home'.loading]_vars

\* a list of two pages is shown, and the load that came back last failed for
\* a meta field that is no number
C22_Witness ==
    /\ user.last = "loadPatients: catch"
    /\ inFlight = <<>>
    /\ latest.arrived
    /\ ~latest.answer.ok
    /\ home.error = <<"Invalid response format: missing or invalid meta.", "page">>
    /\ ~home.loading
    /\ Len(home.patients) = 20
    /\ home.totalPages = 2

====
